---- MODULE Spec2Model ----
(***************************************************************************)
(* Model of aineko's dataset layer (src/aineko/core/dataset.py):           *)
(* DatasetConsumer, DatasetProducer, FakeDatasetConsumer and the Kafka     *)
(* topic they talk through.                                                *)
(*                                                                         *)
(* Python strings are sequences of one-character strings, so that          *)
(* concatenation (f-strings), JSON escaping and JSON parsing are computed  *)
(* character by character.  A topic is modelled with a single partition.   *)
(***************************************************************************)
EXTENDS Integers, Sequences, FiniteSets, TLC

VARIABLES
    consumer,     \* the DatasetConsumer object (class "none" before construction)
    producer,     \* the DatasetProducer object
    fake,         \* the FakeDatasetConsumer object
    log,          \* broker: the records of the topic, oldest first
    assigned,     \* broker: the consumer has been assigned the partition
    position,     \* broker client: offset of the next record poll() fetches
    cachedHigh,   \* broker client: locally cached high watermark
    call,         \* the call in progress on the consumer and its locals
    ret,          \* the outcome of the call that ended in the last step
    sent,         \* history: for each record of log, who wrote it and what
    delivered,    \* history: envelopes returned by next() so far
    onlyNext,     \* history: the consumer was read through next() only
    ctor_args,    \* history: the arguments the objects were constructed with
    fake_producer, \* the FakeDatasetProducer object
    hist,         \* history of the fakes: values seeded, read and produced
    kafka_config, \* the module-level DEFAULT_KAFKA_CONFIG
    clients       \* the Kafka clients created, each with the config it got

vars == <<consumer, producer, fake, log, assigned, position, cachedHigh,
          call, ret, sent, delivered, onlyNext, ctor_args, fake_producer,
          hist, kafka_config, clients>>

\* What the operations of DatasetConsumer and DatasetProducer leave alone.
fakes_and_config == <<fake_producer, hist, kafka_config, clients>>

(***************************************************************************)
(* Bounds of the model.                                                    *)
(***************************************************************************)
\* Longest topic log explored.
MaxLog == 2
\* Most records written to the topic by other clients than the producer.
MaxForeign == 1
\* Longest list a FakeDatasetConsumer is seeded with.
MaxSeed == 2
\* Most messages a FakeDatasetProducer is given.
MaxProduced == 2
\* Most DatasetConsumer and DatasetProducer objects constructed one after
\* the other.
MaxClients == 2

(***************************************************************************)
(* Program constants.                                                      *)
(***************************************************************************)
\* confluent_kafka.OFFSET_INVALID
OFFSET_INVALID == -1001
\* librdkafka's logical offset "end of partition", which is what an offset
\* of -1 handed to assign() means.
OFFSET_END == -1
\* DEFAULT_KAFKA_CONFIG.get("CONSUMER_TIMEOUT")
CONSUMER_TIMEOUT == 0
\* KafkaError._MAX_POLL_EXCEEDED, the integer KafkaError.code() returns for
\* the error whose name() is "_MAX_POLL_EXCEEDED".
MAX_POLL_EXCEEDED_CODE == -147
\* KafkaError._ALL_BROKERS_DOWN, standing for every other broker error.
ALL_BROKERS_DOWN_CODE == -187

(***************************************************************************)
(* Strings.                                                                *)
(***************************************************************************)
DOT == <<".">>
QUOTE == "\""
BACKSLASH == "\\"
\* A character outside ASCII: e with acute accent, code point U+00E9.
EACUTE == "U+00E9"

(***************************************************************************)
(* Python values whose type matters (Optional arguments, values compared   *)
(* across types) carry their type.                                         *)
(***************************************************************************)
PyNone == [ty |-> "NoneType", v |-> 0]
PyInt(n) == [ty |-> "int", v |-> n]
PyStr(s) == [ty |-> "str", v |-> s]

\* Python's a == b: values of different types are unequal.
py_eq(a, b) == a.ty = b.ty /\ a.v = b.v

\* Python truthiness: None, 0 and "" are falsy.
Truthy(x) ==
    /\ x.ty # "NoneType"
    /\ x.ty = "int" => x.v # 0
    /\ x.ty = "str" => x.v # <<>>

(***************************************************************************)
(* JSON values: str, dict (insertion-ordered key/value pairs), list, null. *)
(***************************************************************************)
JStr(s) == [t |-> "str", s |-> s, kv |-> <<>>]
JObj(kv) == [t |-> "obj", s |-> <<>>, kv |-> kv]
JArr(xs) == [t |-> "arr", s |-> <<>>, kv |-> xs]
JNull == [t |-> "null", s |-> <<>>, kv |-> <<>>]

(***************************************************************************)
(* json.dumps with its defaults (separators ", " and ": ", ensure_ascii):   *)
(* line 435.                                                               *)
(***************************************************************************)
RECURSIVE json_escape(_)
json_escape(s) ==
    IF s = <<>> THEN <<>>
    ELSE (IF Head(s) \in {QUOTE, BACKSLASH}
          THEN <<BACKSLASH, Head(s)>>
          ELSE IF Head(s) = EACUTE
          THEN <<BACKSLASH, "u", "0", "0", "e", "9">>
          ELSE <<Head(s)>>) \o json_escape(Tail(s))

json_dumps_str(s) == <<QUOTE>> \o json_escape(s) \o <<QUOTE>>

RECURSIVE json_dumps(_), json_dumps_members(_), json_dumps_elements(_)
json_dumps(v) ==
    CASE v.t = "str" -> json_dumps_str(v.s)
      [] v.t = "obj" -> <<"{">> \o json_dumps_members(v.kv) \o <<"}">>
      [] v.t = "arr" -> <<"[">> \o json_dumps_elements(v.kv) \o <<"]">>
      [] OTHER -> <<"n", "u", "l", "l">>

json_dumps_members(kv) ==
    IF kv = <<>> THEN <<>>
    ELSE json_dumps_str(kv[1][1]) \o <<":", " ">> \o json_dumps(kv[1][2])
         \o (IF Len(kv) > 1 THEN <<",", " ">> ELSE <<>>)
         \o json_dumps_members(Tail(kv))

json_dumps_elements(xs) ==
    IF xs = <<>> THEN <<>>
    ELSE json_dumps(xs[1])
         \o (IF Len(xs) > 1 THEN <<",", " ">> ELSE <<>>)
         \o json_dumps_elements(Tail(xs))

(***************************************************************************)
(* json.loads: line 155.  A parse step returns [ok, v, i]: whether it      *)
(* succeeded, the value, and the index of the first character not read.    *)
(***************************************************************************)
ParseFail == [ok |-> FALSE, v |-> JNull, i |-> 0]
ParseOk(v, i) == [ok |-> TRUE, v |-> v, i |-> i]

RECURSIVE skip_ws(_, _)
skip_ws(s, i) == IF i <= Len(s) /\ s[i] = " " THEN skip_ws(s, i + 1) ELSE i

\* The string body after the opening quote at i - 1.
RECURSIVE scan_string(_, _, _)
scan_string(s, i, acc) ==
    IF i > Len(s) THEN ParseFail
    ELSE IF s[i] = QUOTE THEN ParseOk(acc, i + 1)
    ELSE IF s[i] = BACKSLASH
         THEN IF i + 1 <= Len(s) /\ s[i + 1] \in {QUOTE, BACKSLASH}
              THEN scan_string(s, i + 2, Append(acc, s[i + 1]))
              ELSE IF /\ i + 5 <= Len(s)
                      /\ SubSeq(s, i + 1, i + 5) = <<"u", "0", "0", "e", "9">>
              THEN scan_string(s, i + 6, Append(acc, EACUTE))
              ELSE ParseFail
    ELSE scan_string(s, i + 1, Append(acc, s[i]))

\* dict[key] = value on an insertion-ordered dict.
RECURSIVE dict_set(_, _, _)
dict_set(kv, key, value) ==
    IF kv = <<>> THEN <<<<key, value>>>>
    ELSE IF kv[1][1] = key THEN <<<<key, value>>>> \o Tail(kv)
    ELSE <<kv[1]>> \o dict_set(Tail(kv), key, value)

RECURSIVE parse_value(_, _), parse_pairs(_, _, _), parse_elements(_, _, _)
parse_value(s, i0) ==
    LET i == skip_ws(s, i0) IN
    IF i > Len(s) THEN ParseFail
    ELSE IF s[i] = QUOTE THEN
        LET r == scan_string(s, i + 1, <<>>) IN
        IF r.ok THEN ParseOk(JStr(r.v), r.i) ELSE ParseFail
    ELSE IF s[i] = "{" THEN
        LET j == skip_ws(s, i + 1) IN
        IF j <= Len(s) /\ s[j] = "}" THEN ParseOk(JObj(<<>>), j + 1)
        ELSE parse_pairs(s, j, <<>>)
    ELSE IF s[i] = "[" THEN
        LET j == skip_ws(s, i + 1) IN
        IF j <= Len(s) /\ s[j] = "]" THEN ParseOk(JArr(<<>>), j + 1)
        ELSE parse_elements(s, j, <<>>)
    ELSE IF i + 3 <= Len(s) /\ SubSeq(s, i, i + 3) = <<"n", "u", "l", "l">>
        THEN ParseOk(JNull, i + 4)
    ELSE ParseFail

\* The members of an object from its first key at i (after white space).
parse_pairs(s, i, acc) ==
    IF i > Len(s) \/ s[i] # QUOTE THEN ParseFail
    ELSE
        LET k == scan_string(s, i + 1, <<>>) IN
        IF ~k.ok THEN ParseFail
        ELSE
            LET c == skip_ws(s, k.i) IN
            IF c > Len(s) \/ s[c] # ":" THEN ParseFail
            ELSE
                LET v == parse_value(s, c + 1) IN
                IF ~v.ok THEN ParseFail
                ELSE
                    LET e == skip_ws(s, v.i)
                        acc2 == dict_set(acc, k.v, v.v)
                    IN  IF e > Len(s) THEN ParseFail
                        ELSE IF s[e] = "}" THEN ParseOk(JObj(acc2), e + 1)
                        ELSE IF s[e] = ","
                             THEN parse_pairs(s, skip_ws(s, e + 1), acc2)
                        ELSE ParseFail

\* The elements of an array from its first element at i.
parse_elements(s, i, acc) ==
    LET v == parse_value(s, i) IN
    IF ~v.ok THEN ParseFail
    ELSE
        LET e == skip_ws(s, v.i)
            acc2 == Append(acc, v.v)
        IN  IF e > Len(s) THEN ParseFail
            ELSE IF s[e] = "]" THEN ParseOk(JArr(acc2), e + 1)
            ELSE IF s[e] = "," THEN parse_elements(s, e + 1, acc2)
            ELSE ParseFail

\* json.loads(s): the whole text is one value (else JSONDecodeError).
json_loads(s) ==
    LET r == parse_value(s, 1) IN
    IF r.ok /\ skip_ws(s, r.i) = Len(s) + 1 THEN r ELSE ParseFail

(***************************************************************************)
(* Construction: topic names and consumer identity.                        *)
(***************************************************************************)
NotConstructed == [class |-> "none"]

\* Lines 109-111 and 374-376: the dataset name, pipeline-prefixed on demand.
pipeline_topic_name(dataset_name, pipeline_name, has_pipeline_prefix) ==
    IF has_pipeline_prefix
    THEN pipeline_name \o DOT \o dataset_name
    ELSE dataset_name

\* DatasetConsumer.__init__ subscribing to the topic without the prefix.
DatasetConsumerInit_SubscribesUnprefixed(dataset_name, node_name, pipeline_name, prefix, has_pipeline_prefix) ==
    LET topic_name ==
            pipeline_topic_name(dataset_name, pipeline_name,
                                has_pipeline_prefix)
        name == IF Truthy(prefix)
                THEN prefix.v \o DOT \o pipeline_name \o DOT \o node_name
                ELSE pipeline_name \o DOT \o node_name
    IN  [class |-> "DatasetConsumer",
         pipeline_name |-> pipeline_name,
         prefix |-> prefix,
         has_pipeline_prefix |-> has_pipeline_prefix,
         cached |-> FALSE,
         name |-> name,
         group_id |-> name,
         subscribed |-> <<topic_name>>,
         topic_name |-> topic_name]

\* DatasetConsumer.__init__, lines 85-125.  "subscribed" is the argument of
\* the one consumer.subscribe() call, "group_id" the group.id handed to
\* Consumer().
DatasetConsumerInit(dataset_name, node_name, pipeline_name, prefix, has_pipeline_prefix) ==
    LET topic_name ==
            pipeline_topic_name(dataset_name, pipeline_name,
                                has_pipeline_prefix)
        name == IF Truthy(prefix)
                THEN prefix.v \o DOT \o pipeline_name \o DOT \o node_name
                ELSE pipeline_name \o DOT \o node_name
    IN  [class |-> "DatasetConsumer",
         pipeline_name |-> pipeline_name,
         prefix |-> prefix,
         has_pipeline_prefix |-> has_pipeline_prefix,
         cached |-> FALSE,
         name |-> name,
         group_id |-> name,
         subscribed |-> IF Truthy(prefix)
                        THEN <<prefix.v \o DOT \o topic_name>>
                        ELSE <<topic_name>>,
         topic_name |-> topic_name]

\* DatasetProducer.__init__, lines 367-379.
DatasetProducerInit(dataset_name, node_name, pipeline_name, prefix, has_pipeline_prefix) ==
    LET topic_name ==
            pipeline_topic_name(dataset_name, pipeline_name,
                                has_pipeline_prefix)
    IN  [class |-> "DatasetProducer",
         source_pipeline |-> pipeline_name,
         dataset |-> dataset_name,
         source_node |-> node_name,
         prefix |-> prefix,
         has_pipeline_prefix |-> has_pipeline_prefix,
         topic_name |-> IF Truthy(prefix)
                        THEN prefix.v \o DOT \o topic_name
                        ELSE topic_name]

(***************************************************************************)
(* The message envelope, aineko.models.base.MessageData: fields timestamp  *)
(* (defaulted to the current time), dataset, source_node, source_pipeline  *)
(* and message.                                                            *)
(***************************************************************************)
K_timestamp == <<"t", "i", "m", "e", "s", "t", "a", "m", "p">>
K_dataset == <<"d", "a", "t", "a", "s", "e", "t">>
K_source_node == <<"s", "o", "u", "r", "c", "e", "_", "n", "o", "d", "e">>
K_source_pipeline ==
    <<"s", "o", "u", "r", "c", "e", "_", "p", "i", "p", "e", "l", "i", "n", "e">>
K_message == <<"m", "e", "s", "s", "a", "g", "e">>

\* The reading of the clock when an envelope is built without a timestamp.
NOW == <<"t", "0">>

MessageData(timestamp, dataset, source_node, source_pipeline, message) ==
    [timestamp |-> timestamp, dataset |-> dataset,
     source_node |-> source_node, source_pipeline |-> source_pipeline,
     message |-> message]

\* Placeholder where a result carries no envelope.
NoEnv == MessageData(<<>>, <<>>, <<>>, <<>>, JNull)

\* MessageData.model_dump(mode="json").
model_dump(env) ==
    JObj(<< <<K_timestamp, JStr(env.timestamp)>>,
            <<K_dataset, JStr(env.dataset)>>,
            <<K_source_node, JStr(env.source_node)>>,
            <<K_source_pipeline, JStr(env.source_pipeline)>>,
            <<K_message, env.message>> >>)

HasKey(kv, key) == \E i \in 1..Len(kv) : kv[i][1] = key
Lookup(kv, key) == kv[CHOOSE i \in 1..Len(kv) : kv[i][1] = key][2]
IsStrField(kv, key) == HasKey(kv, key) /\ Lookup(kv, key).t = "str"

\* MessageData(**kwargs) accepts the keyword arguments: the three string
\* fields and message are required, timestamp is optional.
MessageDataValid(kv) ==
    /\ IsStrField(kv, K_dataset)
    /\ IsStrField(kv, K_source_node)
    /\ IsStrField(kv, K_source_pipeline)
    /\ HasKey(kv, K_message)
    /\ HasKey(kv, K_timestamp) => IsStrField(kv, K_timestamp)

MessageDataFromKwargs(kv) ==
    MessageData(IF HasKey(kv, K_timestamp)
                THEN Lookup(kv, K_timestamp).s ELSE NOW,
                Lookup(kv, K_dataset).s,
                Lookup(kv, K_source_node).s,
                Lookup(kv, K_source_pipeline).s,
                Lookup(kv, K_message))

(***************************************************************************)
(* Outcomes of a call: it returns None, returns an envelope, returns a raw *)
(* payload (FakeDatasetConsumer in "last" mode), or raises.                *)
(***************************************************************************)
ReturnNone == [k |-> "none", env |-> NoEnv, exc |-> "", code |-> 0]
ReturnMsg(env) == [k |-> "msg", env |-> env, exc |-> "", code |-> 0]
ReturnRaw(value) ==
    [k |-> "raw", env |-> [NoEnv EXCEPT !.message = value],
     exc |-> "", code |-> 0]
Raise(exc, code) == [k |-> "raise", env |-> NoEnv, exc |-> exc, code |-> code]
\* consume_all returns the list of messages it gathered.
ReturnList == [k |-> "list", env |-> NoEnv, exc |-> "", code |-> 0]

(***************************************************************************)
(* Broker records (confluent_kafka.Message) and what poll() hands back.    *)
(***************************************************************************)
PyBytes(b) == [ty |-> "bytes", v |-> b]
Message(error, value) == [ty |-> "Message", error |-> error, value |-> value]
NoMessage == [ty |-> "NoneType", error |-> FALSE, value |-> PyNone]

\* Bytes: an ASCII byte is written as its character; the two bytes of
\* U+00E9 in UTF-8; a byte that occurs in no UTF-8 text.
BYTE_C3 == "0xC3"
BYTE_A9 == "0xA9"
BYTE_FF == "0xFF"

\* str.encode("utf-8"), line 435: one byte for an ASCII character, two for
\* U+00E9.  The text is encoded by halves.
RECURSIVE utf8_encode(_)
utf8_encode(s) ==
    IF s = <<>> THEN <<>>
    ELSE IF Len(s) = 1
    THEN (IF s[1] = EACUTE THEN <<BYTE_C3, BYTE_A9>> ELSE s)
    ELSE utf8_encode(SubSeq(s, 1, Len(s) \div 2))
         \o utf8_encode(SubSeq(s, Len(s) \div 2 + 1, Len(s)))

\* bytes.decode("utf-8"), line 151, raises UnicodeDecodeError unless every
\* lead byte is followed by its continuation byte, every continuation byte
\* follows its lead byte, and no other byte is outside ASCII.
utf8_valid(b) ==
    \A i \in 1..Len(b) :
        /\ b[i] # BYTE_FF
        /\ b[i] = BYTE_C3 => (i < Len(b) /\ b[i + 1] = BYTE_A9)
        /\ b[i] = BYTE_A9 => (i > 1 /\ b[i - 1] = BYTE_C3)

\* The text of valid bytes: a lead byte and its continuation byte make
\* U+00E9.
IsNotContinuation(c) == c # BYTE_A9
utf8_decode(b) ==
    SelectSeq([i \in 1..Len(b) |-> IF b[i] = BYTE_C3 THEN EACUTE ELSE b[i]],
              IsNotContinuation)

\* DatasetConsumer._validate_message, lines 140-167.
validate_message(raw_message) ==
    IF raw_message.ty = "NoneType" \/ raw_message.value.ty = "NoneType"
    THEN ReturnNone
    ELSE IF raw_message.error THEN ReturnNone
    ELSE IF ~utf8_valid(raw_message.value.v)
    THEN Raise("UnicodeDecodeError", 0)
    ELSE
        LET parsed == json_loads(utf8_decode(raw_message.value.v)) IN
        IF ~parsed.ok THEN ReturnNone
        ELSE IF parsed.v.t # "obj" THEN Raise("TypeError", 0)
        ELSE IF ~MessageDataValid(parsed.v.kv)
        THEN Raise("ValidationError", 0)
        ELSE ReturnMsg(MessageDataFromKwargs(parsed.v.kv))

(***************************************************************************)
(* Inputs.                                                                 *)
(***************************************************************************)
\* The constructor arguments explored for topic naming.
DatasetNames == {<<"d">>, <<"e">>}
PipelineNames == {<<"p">>, <<"q">>}
NodeNames == {<<"n">>, <<"m">>}
Prefixes == {PyNone, PyStr(<<>>), PyStr(<<"x">>)}

\* The payloads handed to produce(): a str that needs escaping, and a dict.
Payloads ==
    {JStr(<<EACUTE, QUOTE, BACKSLASH>>),
     JObj(<< <<<<"k">>, JStr(<<"v">>)>> >>)}

\* Records other clients write to the topic: bytes that are no UTF-8, text
\* that is no JSON, JSON that is no object, and an object that is no
\* envelope.
ForeignRecords ==
    {Message(FALSE, PyBytes(<<BYTE_FF>>)),
     Message(FALSE, PyBytes(<<"{">>)),
     Message(FALSE, PyBytes(<<QUOTE, "a", QUOTE>>)),
     Message(FALSE, PyBytes(utf8_encode(
         json_dumps(JObj(<< <<K_dataset, JStr(<<"d">>)>> >>)))))}

\* An event poll() reports as a Message whose error() is set.
ErrorEvent == Message(TRUE, PyBytes(<<"e", "r", "r">>))

Hows == {"next", "last", "bogus"}
\* consume() takes its timeout unchecked; a positive timeout takes the same
\* branch of line 225 as the positive timeouts last() passes down.
ConsumeTimeouts == {PyNone, PyInt(-1), PyInt(0)}
LastTimeouts == {-1, 0, 1}
KafkaErrorCodes == {MAX_POLL_EXCEEDED_CODE, ALL_BROKERS_DOWN_CODE}

(***************************************************************************)
(* Initial states.                                                         *)
(***************************************************************************)
\* The locals of a call in progress: besides its arguments, the broker
\* operations issued (ops), the high watermark the last seek obtained, the
\* end of the log then and the offset it assigned, the KafkaError the last
\* offset update raised, and for consume_all the end message, the messages
\* gathered and the offset of the first record it was handed.
Idle ==
    [op |-> "none", how |-> "", timeout |-> PyNone, pc |-> "idle",
     ops |-> {}, high_offset |-> PyNone, end_at_seek |-> PyNone,
     seek_offset |-> PyNone, update_error |-> PyNone,
     end_message |-> JNull, messages |-> <<>>, first |-> PyNone,
     before |-> [cached |-> FALSE, values |-> <<>>, empty |-> FALSE]]

\* The outcome of a call: its locals when it ended, what it returned or
\* raised (out), the offset of the record it was last handed, and for
\* produce the producer operations in the order issued (trace) and whether
\* the broker acknowledged the record.
NoRet ==
    [op |-> "none", how |-> "", timeout |-> PyNone, out |-> ReturnNone,
     ops |-> {}, offset |-> PyNone, high_offset |-> PyNone,
     end_at_seek |-> PyNone,
     seek_offset |-> PyNone, update_error |-> PyNone,
     end_message |-> JNull, messages |-> <<>>, first |-> PyNone,
     trace |-> <<>>, acked |-> TRUE,
     before |-> [cached |-> FALSE, values |-> <<>>, empty |-> FALSE],
     after |-> [cached |-> FALSE, values |-> <<>>, empty |-> FALSE]]

\* FakeDatasetConsumer.__init__, lines 470-474.
FakeDatasetConsumerInit(dataset_name, node_name, source_pipeline, values) ==
    [class |-> "FakeDatasetConsumer",
     dataset_name |-> dataset_name,
     node_name |-> node_name,
     source_pipeline |-> source_pipeline,
     values |-> values,
     empty |-> FALSE]

\* FakeDatasetProducer.__init__, lines 548-553.
FakeDatasetProducerInit(dataset_name, node_name, source_pipeline) ==
    [class |-> "FakeDatasetProducer",
     dataset_name |-> dataset_name,
     node_name |-> node_name,
     source_pipeline |-> source_pipeline,
     values |-> <<>>]

\* Nothing seeded, read or produced.
NoHist == [seeded |-> <<>>, reads |-> <<>>, produced |-> <<>>]

\* The broker settings of aineko.config.DEFAULT_KAFKA_CONFIG: one dict for
\* consumers and one for producers, each created once when the module is
\* imported.
LOCALHOST == <<"l", "o", "c", "a", "l">>
EARLIEST == <<"e", "a", "r", "l", "y">>
NoGroup == <<>>
DEFAULT_KAFKA_CONFIG ==
    [CONSUMER_CONFIG |-> [bootstrap_servers |-> LOCALHOST,
                          group_id |-> NoGroup,
                          auto_offset_reset |-> EARLIEST],
     PRODUCER_CONFIG |-> [bootstrap_servers |-> LOCALHOST,
                          group_id |-> NoGroup,
                          auto_offset_reset |-> EARLIEST]]

RECURSIVE SeqsUpTo(_, _)
SeqsUpTo(S, n) ==
    IF n = 0 THEN {<<>>}
    ELSE LET shorter == SeqsUpTo(S, n - 1) IN
         shorter \cup {Append(q, x) : q \in shorter, x \in S}

BrokerInit ==
    /\ log = <<>>
    /\ sent = <<>>
    /\ assigned = FALSE
    /\ position = 0
    /\ cachedHigh = OFFSET_INVALID
    /\ call = Idle
    /\ ret = NoRet
    /\ delivered = <<>>
    /\ onlyNext = TRUE
    /\ kafka_config = DEFAULT_KAFKA_CONFIG
    /\ clients = <<>>

NoArgs == <<<<>>, <<>>, <<>>, PyNone, FALSE>>
NodeArgs == <<<<"d">>, <<"n">>, <<"p">>, PyStr(<<"x">>), TRUE>>

\* A node wired to the broker: a consumer and a producer of one dataset.
InitReal ==
    /\ consumer = DatasetConsumerInit(NodeArgs[1], NodeArgs[2], NodeArgs[3],
                                      NodeArgs[4], NodeArgs[5])
    /\ producer = DatasetProducerInit(NodeArgs[1], NodeArgs[2], NodeArgs[3],
                                      NodeArgs[4], NodeArgs[5])
    /\ ctor_args = [consumer |-> NodeArgs, producer |-> NodeArgs]
    /\ fake = NotConstructed
    /\ fake_producer = NotConstructed
    /\ hist = NoHist
    /\ BrokerInit

\* A node under test: a fake consumer seeded with values and a fake
\* producer.
InitFake ==
    /\ consumer = NotConstructed
    /\ producer = NotConstructed
    /\ \E values \in SeqsUpTo(Payloads, MaxSeed) :
           /\ fake = FakeDatasetConsumerInit(<<"d">>, <<"n">>, <<"p">>, values)
           /\ hist = [NoHist EXCEPT !.seeded = values]
    /\ fake_producer = FakeDatasetProducerInit(<<"e">>, <<"m">>, <<"q">>)
    /\ ctor_args = [consumer |-> NoArgs, producer |-> NoArgs]
    /\ BrokerInit

Init == InitReal \/ InitFake

\* What a call may change of the object it is made on.
Snapshot(c, f) ==
    [cached |-> IF c.class = "none" THEN FALSE ELSE c.cached,
     values |-> IF f.class = "none" THEN <<>> ELSE f.values,
     empty |-> IF f.class = "none" THEN FALSE ELSE f.empty]

(***************************************************************************)
(* DatasetProducer.produce and the other writers of the topic.             *)
(***************************************************************************)
\* The envelope with source_node and source_pipeline exchanged.
ProducerEnvelope_SwapsSource(message) ==
    MessageData(NOW, producer.dataset, producer.source_pipeline,
                producer.source_node, message)

\* Lines 421-426: the envelope of a payload.
ProducerEnvelope(message) ==
    MessageData(NOW, producer.dataset, producer.source_node,
                producer.source_pipeline, message)

\* produce enqueueing the record before it serves delivery reports.
produce_ops_PublishFirst == <<"produce", "poll(0)", "flush">>

\* Lines 428-438: the operations produce issues on the Kafka producer, in
\* the order of its statements.
produce_ops == <<"poll(0)", "produce", "flush">>

\* _delivery_report, lines 409-410, called with err: it logs and returns.
delivery_report(acknowledged) == ReturnNone

\* Lines 421-438.  The broker acknowledges the record, which is then in the
\* topic, or fails it, which _delivery_report only logs.
Produce(message) ==
    /\ UNCHANGED fakes_and_config
    /\ producer.class = "DatasetProducer"
    /\ Len(log) < MaxLog
    /\ \E acknowledged \in BOOLEAN :
        /\ IF acknowledged
           THEN /\ log' = Append(log, Message(FALSE, PyBytes(utf8_encode(
                          json_dumps(model_dump(ProducerEnvelope(message)))))))
                /\ sent' = Append(sent,
                                  [by |-> "producer", message |-> message])
           ELSE UNCHANGED <<log, sent>>
        /\ ret' = [NoRet EXCEPT !.op = "produce",
                                !.trace = produce_ops,
                                !.acked = acknowledged,
                                !.out = delivery_report(acknowledged)]
    /\ UNCHANGED <<ctor_args, consumer, producer, fake, assigned, position,
                   cachedHigh, call, delivered, onlyNext>>

NumForeign == Cardinality({i \in 1..Len(sent) : sent[i].by = "other"})

\* Another client publishes a record to the topic.
ForeignPublish(record) ==
    /\ UNCHANGED fakes_and_config
    /\ producer.class = "DatasetProducer"
    /\ Len(log) < MaxLog
    /\ NumForeign < MaxForeign
    /\ log' = Append(log, record)
    /\ sent' = Append(sent, [by |-> "other", message |-> JNull])
    /\ ret' = NoRet
    /\ UNCHANGED <<ctor_args, consumer, producer, fake, assigned, position,
                   cachedHigh, call, delivered, onlyNext>>

(***************************************************************************)
(* The broker as the consumer sees it.                                     *)
(***************************************************************************)
Max(a, b) == IF a >= b THEN a ELSE b

\* consumer.poll(timeout), lines 228 and 241: what it hands back and the
\* client state it leaves.  The log is the topic the producer writes; the
\* consumer is fed from it when that is the topic it subscribed to.  The
\* group is joined inside poll.  A negative timeout waits without limit.
\* The fetch response that carries a record carries the high watermark.
PollOutcomes(timeout) ==
    LET joined == IF assigned THEN {TRUE} ELSE BOOLEAN
        same == [kind |-> "none", msg |-> NoMessage, code |-> 0,
                 position |-> position, assigned |-> assigned,
                 cachedHigh |-> cachedHigh]
    IN  (IF timeout >= 0
         THEN {[same EXCEPT !.assigned = a] : a \in joined}
         ELSE {})
        \cup
        (IF /\ consumer.subscribed = <<producer.topic_name>>
            /\ position >= 0
            /\ position < Len(log)
         THEN {[same EXCEPT !.kind = "record",
                            !.msg = log[position + 1],
                            !.position = position + 1,
                            !.assigned = TRUE,
                            !.cachedHigh = h] :
                 h \in {Max(cachedHigh, position + 1), Len(log)}}
         ELSE {})
        \cup {[same EXCEPT !.kind = "event", !.msg = ErrorEvent]}
        \cup {[same EXCEPT !.kind = "raise", !.code = c] :
                c \in KafkaErrorCodes}

\* The client resolves the logical offset "end" to the end of the log.
ResolveEnd ==
    /\ UNCHANGED fakes_and_config
    /\ consumer.class = "DatasetConsumer"
    /\ assigned
    /\ position = OFFSET_END
    /\ position' = Len(log)
    /\ ret' = NoRet
    /\ UNCHANGED <<ctor_args, consumer, producer, fake, log, assigned,
                   cachedHigh, call, sent, delivered, onlyNext>>

(***************************************************************************)
(* DatasetConsumer.                                                        *)
(***************************************************************************)
\* Line 225: timeout or CONSUMER_TIMEOUT.
effective_timeout(timeout) ==
    IF Truthy(timeout) THEN timeout.v ELSE CONSUMER_TIMEOUT

\* Line 222.
valid_how(how) == how \in {"next", "last"}

\* The check of line 311 letting 0 through.
invalid_last_timeout_NegativeOnly(timeout) == timeout < 0

\* Line 311.
invalid_last_timeout(timeout) == timeout <= 0

\* The seek to the high watermark itself, not one before it.
latest_offset_AtWatermark(high_offset) ==
    IF high_offset = OFFSET_INVALID THEN -1 ELSE high_offset

\* The seek offset computed without the test for the invalid watermark.
latest_offset_NoSentinel(high_offset) == high_offset - 1

\* Lines 188-194: the offset a partition is assigned for a high watermark.
latest_offset(high_offset) ==
    IF high_offset = OFFSET_INVALID THEN -1 ELSE high_offset - 1

\* Lines 258-266: whether _consume_message goes round its loop again after
\* consume ended with this result.  KafkaError.code() is an integer.
consume_message_retries(result) ==
    \/ result.k = "none"
    \/ /\ result.k = "raise"
       /\ result.exc = "KafkaError"
       /\ py_eq(PyInt(result.code), PyStr("_MAX_POLL_EXCEEDED"))

\* The call c ends and its outcome is recorded: what it returned or
\* raised, the broker operations it issued, and the offset of the record
\* it was handed, if any.
Return(c, out, ops, offset) ==
    /\ call' = Idle
    /\ ret' = [op |-> c.op, how |-> c.how, timeout |-> c.timeout,
               out |-> out, ops |-> ops, offset |-> offset,
               high_offset |-> c.high_offset,
               end_at_seek |-> c.end_at_seek,
               seek_offset |-> c.seek_offset,
               update_error |-> c.update_error,
               end_message |-> c.end_message,
               messages |-> c.messages,
               first |-> c.first,
               trace |-> <<>>, acked |-> TRUE,
               before |-> c.before, after |-> Snapshot(consumer', fake')]
    /\ delivered' =
         IF c.op = "next" /\ onlyNext' /\ out.k = "msg"
         THEN Append(delivered, out.env)
         ELSE IF onlyNext' THEN delivered ELSE <<>>

\* consume_all appending the end message before it tests for it.
consume_all_step_AppendsFirst(messages, wrapped_message, end_message) ==
    [done |-> wrapped_message.message = end_message,
     messages |-> Append(messages, wrapped_message)]

\* Lines 330-333: one round of consume_all's loop on an envelope.
consume_all_step(messages, wrapped_message, end_message) ==
    IF wrapped_message.message = end_message
    THEN [done |-> TRUE, messages |-> messages]
    ELSE [done |-> FALSE, messages |-> Append(messages, wrapped_message)]

\* Lines 326-334: consume_all, called as c says, after its consume() ended
\* with result.  An exception consume raises leaves consume_all.
ConsumeAllRound(c, result, ops, offset) ==
    LET c1 == [c EXCEPT !.first = IF @.ty = "NoneType" THEN offset ELSE @]
        step == consume_all_step(c.messages, result.env, c.end_message)
        c2 == [c1 EXCEPT !.messages = step.messages]
    IN  IF result.k = "raise" THEN Return(c1, result, ops, offset)
        ELSE IF result.k = "msg" /\ step.done
        THEN Return(c2, ReturnList, ops, offset)
        ELSE /\ call' = [(IF result.k = "msg" THEN c2 ELSE c1)
                            EXCEPT !.pc = "consume", !.ops = ops]
             /\ ret' = NoRet
             /\ delivered' = IF onlyNext' THEN delivered ELSE <<>>

\* consume, called as c says, ended with result: that is the outcome of a
\* direct consume call, and what _consume_message returns, raises or
\* retries on (lines 258-266), or what consume_all goes on with.
EndConsume(c, result, ops, offset) ==
    IF c.op = "consume_all" THEN ConsumeAllRound(c, result, ops, offset)
    ELSE IF c.op \in {"next", "last"} /\ consume_message_retries(result)
    THEN /\ call' = [c EXCEPT !.pc = "consume", !.ops = ops]
         /\ ret' = NoRet
         /\ delivered' = IF onlyNext' THEN delivered ELSE <<>>
    ELSE Return(c, result, ops, offset)

\* The caller makes its next call once no call is in progress and it has
\* taken the outcome of the previous one.
Ready == call.pc = "idle" /\ ret.op = "none"

\* The caller takes the outcome of the call that ended.
TakeResult ==
    /\ UNCHANGED fakes_and_config
    /\ ret.op # "none"
    /\ ret' = NoRet
    /\ UNCHANGED <<ctor_args, consumer, producer, fake, log, assigned,
                   position, cachedHigh, call, sent, delivered, onlyNext>>

Enter(op, how, timeout) ==
    [Idle EXCEPT !.op = op, !.how = how, !.timeout = timeout,
                 !.pc = "consume", !.before = Snapshot(consumer, fake)]

\* consume setting cached only after the poll of a "last"-mode read.
PollAndValidate_CachedInLastOnly(c) ==
    \E o \in PollOutcomes(effective_timeout(c.timeout)) :
        /\ position' = o.position
        /\ assigned' = o.assigned
        /\ cachedHigh' = o.cachedHigh
        /\ consumer' = IF o.kind = "raise" \/ c.how = "next" THEN consumer
                       ELSE [consumer EXCEPT !.cached = TRUE]
        /\ UNCHANGED <<ctor_args, producer, fake, log, sent>>
        /\ EndConsume(c,
                      IF o.kind = "raise" THEN Raise("KafkaError", o.code)
                      ELSE validate_message(o.msg),
                      c.ops \cup {"poll"},
                      IF o.kind = "record" THEN PyInt(position) ELSE PyNone)

\* Lines 228/241, 243 and 245 of consume called as c says: poll, set
\* cached, validate.  A KafkaError raised by poll leaves consume at once.
PollAndValidate(c) ==
    \E o \in PollOutcomes(effective_timeout(c.timeout)) :
        /\ position' = o.position
        /\ assigned' = o.assigned
        /\ cachedHigh' = o.cachedHigh
        /\ consumer' = IF o.kind = "raise" THEN consumer
                       ELSE [consumer EXCEPT !.cached = TRUE]
        /\ UNCHANGED <<ctor_args, producer, fake, log, sent>>
        /\ EndConsume(c,
                      IF o.kind = "raise" THEN Raise("KafkaError", o.code)
                      ELSE validate_message(o.msg),
                      c.ops \cup {"poll"},
                      IF o.kind = "record" THEN PyInt(position) ELSE PyNone)

\* consume letting the KafkaError of the offset update through.
update_offset_failed_Propagates(code) == Raise("KafkaError", code)

\* Lines 234-240: what consume(how="last") does with the KafkaError the
\* offset update raised.
update_offset_failed(code) == ReturnNone

\* _update_offset_to_latest going on to the seek whatever assignment()
\* answered.
waits_for_assignment_Never(partitions) == FALSE

\* Line 177, while not partitions: partitions says whether assignment()
\* answered a non-empty list.
waits_for_assignment(partitions) == ~partitions

\* _update_offset_to_latest, lines 175-196, of consume(how="last") called
\* as c says: one round of the wait for an assignment, or the seek, or a
\* KafkaError raised by one of its broker operations.  A fresh watermark
\* query answers the end of the log; a cached one answers what the client
\* last saw.
UpdateOffsetToLatest(c) ==
    /\ UNCHANGED <<ctor_args, consumer, producer, fake, log, cachedHigh,
                   sent>>
    /\ \/ /\ waits_for_assignment(assigned)
          /\ assigned' \in BOOLEAN
          /\ position' = position
          /\ call' = [c EXCEPT !.ops = @ \cup {"assignment", "poll(0)"}]
          /\ ret' = NoRet
          /\ delivered' = <<>>
       \/ /\ ~waits_for_assignment(assigned)
          /\ LET high_offset ==
                     IF consumer.cached THEN cachedHigh ELSE Len(log)
             IN  /\ position' = latest_offset(high_offset)
                 /\ assigned' = assigned
                 /\ call' = [c EXCEPT
                               !.pc = "poll",
                               !.high_offset = PyInt(high_offset),
                               !.end_at_seek = PyInt(Len(log)),
                               !.seek_offset =
                                   PyInt(latest_offset(high_offset)),
                               !.update_error = PyNone,
                               !.ops = @ \cup {"assignment",
                                               "get_watermark_offsets",
                                               "assign"}]
                 /\ ret' = NoRet
                 /\ delivered' = <<>>
       \/ \E code \in KafkaErrorCodes :
              /\ position' = position
              /\ assigned' = assigned
              /\ EndConsume([c EXCEPT !.update_error = PyInt(code)],
                            update_offset_failed(code),
                            c.ops \cup {"assignment"}
                                  \cup (IF assigned
                                        THEN {"get_watermark_offsets"}
                                        ELSE {"poll(0)"}),
                            PyNone)

\* consume taking the "last" branch for how="next" and the other way round.
Consume_BranchesSwapped(c) ==
    IF c.how = "next" THEN UpdateOffsetToLatest(c) ELSE PollAndValidate(c)

\* consume called as c says, from line 226.
Consume(c) ==
    IF c.how = "next" THEN PollAndValidate(c) ELSE UpdateOffsetToLatest(c)

\* consume that also rejects a non-positive timeout in "last" mode.
ConsumeCall_ChecksTimeout(how, timeout) ==
    /\ UNCHANGED fakes_and_config
    /\ consumer.class = "DatasetConsumer"
    /\ Ready
    /\ IF ~valid_how(how) \/ (how = "last" /\ ~Truthy(timeout))
                          \/ (how = "last" /\ timeout.v < 0)
       THEN /\ UNCHANGED <<ctor_args, consumer, producer, fake, log,
                           assigned, position, cachedHigh, sent, onlyNext>>
            /\ Return(Enter("consume", how, timeout),
                      Raise("ValueError", 0), {}, PyNone)
       ELSE /\ onlyNext' = FALSE
            /\ Consume(Enter("consume", how, timeout))

\* consume(how, timeout) is called: lines 222-245.
ConsumeCall(how, timeout) ==
    /\ UNCHANGED fakes_and_config
    /\ consumer.class = "DatasetConsumer"
    /\ Ready
    /\ IF ~valid_how(how)
       THEN /\ UNCHANGED <<ctor_args, consumer, producer, fake, log,
                           assigned, position, cachedHigh, sent, onlyNext>>
            /\ Return(Enter("consume", how, timeout),
                      Raise("ValueError", 0), {}, PyNone)
       ELSE /\ onlyNext' = FALSE
            /\ Consume(Enter("consume", how, timeout))

\* next() is called: line 283.
NextCall ==
    /\ UNCHANGED fakes_and_config
    /\ consumer.class = "DatasetConsumer"
    /\ Ready
    /\ UNCHANGED onlyNext
    /\ Consume(Enter("next", "next", PyNone))

\* last(timeout) is called: lines 311-315.
LastCall(timeout) ==
    /\ UNCHANGED fakes_and_config
    /\ consumer.class = "DatasetConsumer"
    /\ Ready
    /\ IF invalid_last_timeout(timeout)
       THEN /\ UNCHANGED <<ctor_args, consumer, producer, fake, log,
                           assigned, position, cachedHigh, sent, onlyNext>>
            /\ Return(Enter("last", "last", PyInt(timeout)),
                      Raise("ValueError", 0), {}, PyNone)
       ELSE /\ onlyNext' = FALSE
            /\ Consume(Enter("last", "last", PyInt(timeout)))

\* consume_all(end_message) is called: lines 326-334.
ConsumeAllCall(end_message) ==
    /\ UNCHANGED fakes_and_config
    /\ consumer.class = "DatasetConsumer"
    /\ Ready
    /\ onlyNext' = FALSE
    /\ Consume([Enter("consume_all", "next", PyNone)
                  EXCEPT !.end_message = end_message])

\* _consume_message or consume_all calls consume again (lines 260 and
\* 328), or consume goes on in _update_offset_to_latest.
ConsumeAgain ==
    /\ UNCHANGED fakes_and_config
    /\ call.pc = "consume"
    /\ UNCHANGED onlyNext
    /\ Consume(call)

\* consume(how="last") after the seek: lines 241-245.
ConsumeLast ==
    /\ UNCHANGED fakes_and_config
    /\ call.pc = "poll"
    /\ UNCHANGED onlyNext
    /\ PollAndValidate(call)

(***************************************************************************)
(* FakeDatasetConsumer.                                                    *)
(***************************************************************************)
\* FakeDatasetConsumer.consume reading from the end of the list in "next"
\* mode (pop() for pop(0)).
fake_consume_PopsTail(how) ==
    IF how = "next" /\ Len(fake.values) > 0
    THEN [fake |-> [fake EXCEPT
                      !.empty = IF Len(fake.values) = 1 THEN TRUE ELSE @,
                      !.values = SubSeq(@, 1, Len(@) - 1)],
          out |-> ReturnMsg(MessageData(NOW, fake.dataset_name,
                                        fake.node_name, fake.source_pipeline,
                                        fake.values[Len(fake.values)]))]
    ELSE IF how = "last" /\ fake.values # <<>>
    THEN [fake |-> fake, out |-> ReturnRaw(fake.values[Len(fake.values)])]
    ELSE [fake |-> fake, out |-> ReturnNone]

\* FakeDatasetConsumer.consume removing the element it returns in "last"
\* mode (pop() for [-1]).
fake_consume_LastPops(how) ==
    IF how = "next" /\ Len(fake.values) > 0
    THEN [fake |-> [fake EXCEPT
                      !.empty = IF Len(fake.values) = 1 THEN TRUE ELSE @,
                      !.values = Tail(@)],
          out |-> ReturnMsg(MessageData(NOW, fake.dataset_name,
                                        fake.node_name, fake.source_pipeline,
                                        Head(fake.values)))]
    ELSE IF how = "last" /\ fake.values # <<>>
    THEN [fake |-> [fake EXCEPT !.values = SubSeq(@, 1, Len(@) - 1)],
          out |-> ReturnRaw(fake.values[Len(fake.values)])]
    ELSE [fake |-> fake, out |-> ReturnNone]

\* FakeDatasetConsumer.consume past the check of how, lines 497-512: the
\* object it leaves and what it returns.
fake_consume(how) ==
    IF how = "next" /\ Len(fake.values) > 0
    THEN [fake |-> [fake EXCEPT
                      !.empty = IF Len(fake.values) = 1 THEN TRUE ELSE @,
                      !.values = Tail(@)],
          out |-> ReturnMsg(MessageData(NOW, fake.dataset_name,
                                        fake.node_name, fake.source_pipeline,
                                        Head(fake.values)))]
    ELSE IF how = "last" /\ fake.values # <<>>
    THEN [fake |-> fake, out |-> ReturnRaw(fake.values[Len(fake.values)])]
    ELSE [fake |-> fake, out |-> ReturnNone]

\* The envelopes "next"-mode reads of the fake have returned, after a call
\* with this how.
fake_reads(how) ==
    IF valid_how(how) /\ how = "next" /\ fake_consume(how).out.k = "msg"
    THEN [hist EXCEPT !.reads = Append(@, fake_consume(how).out.env)]
    ELSE hist

\* The fake's consume checking how only after it has read in "next" mode.
FakeCall_ChecksHowLate(op, how, timeout) ==
    /\ fake.class = "FakeDatasetConsumer"
    /\ Ready
    /\ UNCHANGED <<ctor_args, consumer, producer, log, assigned, position,
                   cachedHigh, sent, onlyNext>>
    /\ UNCHANGED <<fake_producer, kafka_config, clients>>
    /\ hist' = fake_reads(how)
    /\ IF ~valid_how(how)
       THEN /\ fake' = fake_consume("next").fake
            /\ Return(Enter(op, how, timeout), Raise("ValueError", 0),
                      {}, PyNone)
       ELSE /\ fake' = fake_consume(how).fake
            /\ Return(Enter(op, how, timeout), fake_consume(how).out,
                      {}, PyNone)

\* A call of op on the fake consumer, which runs consume(how, timeout).
FakeCall(op, how, timeout) ==
    /\ fake.class = "FakeDatasetConsumer"
    /\ Ready
    /\ UNCHANGED <<ctor_args, consumer, producer, log, assigned, position,
                   cachedHigh, sent, onlyNext>>
    /\ UNCHANGED <<fake_producer, kafka_config, clients>>
    /\ hist' = fake_reads(how)
    /\ IF ~valid_how(how)
       THEN /\ fake' = fake
            /\ Return(Enter(op, how, timeout), Raise("ValueError", 0),
                      {}, PyNone)
       ELSE /\ fake' = fake_consume(how).fake
            /\ Return(Enter(op, how, timeout), fake_consume(how).out,
                      {}, PyNone)

\* FakeDatasetConsumer.consume, lines 494-512.
FakeConsume(how, timeout) == FakeCall("consume", how, timeout)
\* FakeDatasetConsumer.next, line 520.
FakeNext == FakeCall("next", "next", PyNone)
\* FakeDatasetConsumer.last, line 528.
FakeLast(timeout) == FakeCall("last", "last", PyInt(timeout))

(***************************************************************************)
(* FakeDatasetProducer.                                                    *)
(***************************************************************************)
\* The envelope with node and pipeline exchanged.
FakeProducerEnvelope_SwapsSource(message) ==
    MessageData(NOW, fake_producer.dataset_name,
                fake_producer.source_pipeline, fake_producer.node_name,
                message)

\* Lines 560-565: the envelope of a payload.
FakeProducerEnvelope(message) ==
    MessageData(NOW, fake_producer.dataset_name, fake_producer.node_name,
                fake_producer.source_pipeline, message)

\* FakeDatasetProducer.produce, lines 554-566.
FakeProduce(message) ==
    /\ fake_producer.class = "FakeDatasetProducer"
    /\ Len(fake_producer.values) < MaxProduced
    /\ fake_producer' =
           [fake_producer EXCEPT
              !.values = Append(@, FakeProducerEnvelope(message))]
    /\ hist' = [hist EXCEPT !.produced = Append(@, message)]
    /\ ret' = NoRet
    /\ UNCHANGED <<ctor_args, consumer, producer, fake, log, assigned,
                   position, cachedHigh, call, sent, delivered, onlyNext,
                   kafka_config, clients>>

(***************************************************************************)
(* The node: its calls, the producers and the broker client.               *)
(***************************************************************************)
Next ==
    \/ \E message \in Payloads : Produce(message)
    \/ \E record \in ForeignRecords : ForeignPublish(record)
    \/ \E how \in Hows, timeout \in ConsumeTimeouts : ConsumeCall(how, timeout)
    \/ NextCall
    \/ \E timeout \in LastTimeouts : LastCall(timeout)
    \/ \E end_message \in Payloads : ConsumeAllCall(end_message)
    \/ ConsumeAgain
    \/ ConsumeLast
    \/ ResolveEnd
    \/ \E how \in Hows, timeout \in ConsumeTimeouts : FakeConsume(how, timeout)
    \/ FakeNext
    \/ \E timeout \in LastTimeouts : FakeLast(timeout)
    \/ \E message \in Payloads : FakeProduce(message)
    \/ TakeResult

Spec == Init /\ [][Next]_vars

(***************************************************************************)
(* Construction alone, over every argument tuple.                          *)
(***************************************************************************)
InitNamer ==
    /\ consumer = NotConstructed
    /\ producer = NotConstructed
    /\ fake = NotConstructed
    /\ fake_producer = NotConstructed
    /\ hist = NoHist
    /\ ctor_args = [consumer |-> NoArgs, producer |-> NoArgs]
    /\ BrokerInit

ConstructConsumer(args) ==
    /\ UNCHANGED fakes_and_config
    /\ consumer.class = "none"
    /\ consumer' = DatasetConsumerInit(args[1], args[2], args[3], args[4],
                                       args[5])
    /\ ctor_args' = [ctor_args EXCEPT !.consumer = args]
    /\ UNCHANGED <<producer, fake, log, assigned, position, cachedHigh,
                   call, ret, sent, delivered, onlyNext>>

ConstructProducer(args) ==
    /\ UNCHANGED fakes_and_config
    /\ producer.class = "none"
    /\ producer' = DatasetProducerInit(args[1], args[2], args[3], args[4],
                                       args[5])
    /\ ctor_args' = [ctor_args EXCEPT !.producer = args]
    /\ UNCHANGED <<consumer, fake, log, assigned, position, cachedHigh,
                   call, ret, sent, delivered, onlyNext>>

ArgTuples ==
    DatasetNames \X NodeNames \X PipelineNames \X Prefixes \X BOOLEAN

NextNamer ==
    \/ \E args \in ArgTuples : ConstructConsumer(args)
    \/ \E args \in ArgTuples : ConstructProducer(args)

SpecNamer == InitNamer /\ [][NextNamer]_vars

(***************************************************************************)
(* Construction of several objects in one process: the broker settings     *)
(* each Kafka client is created with.                                      *)
(***************************************************************************)
LATEST == <<"l", "a", "t", "e">>

\* The bootstrap_servers argument and the auto.offset.reset entry of the
\* dataset's params, each absent or given.
BootstrapServers == {PyNone, PyStr(<<"b">>), PyStr(<<"c">>)}
OffsetResets == {PyNone, PyStr(LATEST)}

\* DEFAULT_KAFKA_CONFIG.get("PRODUCER_OVERRIDABLES"): the settings a
\* dataset's params may override for a producer.
PRODUCER_OVERRIDABLES == {}

\* Lines 90-100 and 115/121: consumer_config, the dict that
\* self.kafka_config.get("CONSUMER_CONFIG") returned, after the constructor
\* has written the bootstrap servers, the dataset's params and the group id
\* into it.
consumer_config_after(consumer_config, name, bootstrap_servers, offset_reset) ==
    LET with_servers ==
            IF Truthy(bootstrap_servers)
            THEN [consumer_config EXCEPT
                    !.bootstrap_servers = bootstrap_servers.v]
            ELSE consumer_config
        with_params ==
            IF offset_reset.ty # "NoneType"
            THEN [with_servers EXCEPT !.auto_offset_reset = offset_reset.v]
            ELSE with_servers
    IN  [with_params EXCEPT !.group_id = name]

\* Lines 385-394: producer_config after the constructor has written the
\* overridable params into it.
producer_config_after(producer_config, offset_reset) ==
    IF "auto_offset_reset" \in PRODUCER_OVERRIDABLES
       /\ offset_reset.ty # "NoneType"
    THEN [producer_config EXCEPT !.auto_offset_reset = offset_reset.v]
    ELSE producer_config

\* DatasetConsumer.__init__, lines 85-123: the dict is DEFAULT_KAFKA_CONFIG's
\* own, and Consumer(consumer_config) is created with what it then holds.
NewDatasetConsumer(node_name, bootstrap_servers, offset_reset) ==
    /\ Len(clients) < MaxClients
    /\ LET name == <<"p">> \o DOT \o node_name
           config == consumer_config_after(kafka_config.CONSUMER_CONFIG,
                                           name, bootstrap_servers,
                                           offset_reset)
       IN  /\ kafka_config' = [kafka_config EXCEPT !.CONSUMER_CONFIG = config]
           /\ clients' = Append(clients,
                                [class |-> "Consumer",
                                 name |-> name,
                                 bootstrap_servers |-> bootstrap_servers,
                                 offset_reset |-> offset_reset,
                                 config |-> config])
    /\ UNCHANGED <<consumer, producer, fake, log, assigned, position,
                   cachedHigh, call, ret, sent, delivered, onlyNext,
                   ctor_args, fake_producer, hist>>

\* DatasetProducer.__init__, lines 381-397.
NewDatasetProducer(offset_reset) ==
    /\ Len(clients) < MaxClients
    /\ LET config == producer_config_after(kafka_config.PRODUCER_CONFIG,
                                           offset_reset)
       IN  /\ kafka_config' = [kafka_config EXCEPT !.PRODUCER_CONFIG = config]
           /\ clients' = Append(clients,
                                [class |-> "Producer",
                                 name |-> NoGroup,
                                 bootstrap_servers |-> PyNone,
                                 offset_reset |-> offset_reset,
                                 config |-> config])
    /\ UNCHANGED <<consumer, producer, fake, log, assigned, position,
                   cachedHigh, call, ret, sent, delivered, onlyNext,
                   ctor_args, fake_producer, hist>>

NextConfig ==
    \/ \E node_name \in NodeNames, bootstrap_servers \in BootstrapServers,
          offset_reset \in OffsetResets :
            NewDatasetConsumer(node_name, bootstrap_servers, offset_reset)
    \/ \E offset_reset \in OffsetResets : NewDatasetProducer(offset_reset)

SpecConfig == InitNamer /\ [][NextConfig]_vars

(***************************************************************************)
(* "last"-mode reads of a node wired to the broker, with the thread that   *)
(* makes the call running on: the code is synchronous, so a call that can  *)
(* take its next step (the next round of consume, line 260 or 226, or the  *)
(* timed poll, line 241) takes it.  Whether the broker assigns partitions  *)
(* is left open.                                                           *)
(***************************************************************************)
LastModeTimeouts == {PyNone, PyInt(0)}

NextWait ==
    \/ \E message \in Payloads : Produce(message)
    \/ \E timeout \in LastModeTimeouts : ConsumeCall("last", timeout)
    \/ \E timeout \in LastTimeouts : LastCall(timeout)
    \/ ConsumeAgain
    \/ ConsumeLast
    \/ ResolveEnd
    \/ TakeResult

SpecWait ==
    /\ InitReal
    /\ [][NextWait]_vars
    /\ WF_vars(ConsumeAgain)
    /\ WF_vars(ConsumeLast)

(***************************************************************************)
(* Properties.                                                             *)
(***************************************************************************)
SameArgs(a, b) ==
    /\ a[1] = b[1] /\ a[2] = b[2] /\ a[3] = b[3]
    /\ py_eq(a[4], b[4]) /\ a[5] = b[5]

BothConstructed ==
    consumer.class = "DatasetConsumer" /\ producer.class = "DatasetProducer"

\* C1: a consumer and a producer constructed with the same (dataset_name,
\* node_name, pipeline_name, prefix, has_pipeline_prefix), prefix absent or
\* empty included, agree on the topic: the one topic the consumer
\* subscribes to is the producer's topic_name.
C1_SameTopic ==
    (BothConstructed /\ SameArgs(ctor_args.consumer, ctor_args.producer))
        => consumer.subscribed = <<producer.topic_name>>

\* C1's case: both built from one tuple that has a prefix and the pipeline
\* prefix.
C1_Witness ==
    /\ BothConstructed
    /\ SameArgs(ctor_args.consumer, ctor_args.producer)
    /\ Truthy(ctor_args.consumer[4])
    /\ ctor_args.consumer[5]

\* The resolved physical topic [prefix.][pipeline.]dataset of an argument
\* tuple.
ResolvedTopic(args) ==
    LET scoped == IF args[5] THEN args[3] \o DOT \o args[1] ELSE args[1]
    IN  IF Truthy(args[4]) THEN args[4].v \o DOT \o scoped ELSE scoped

\* C2: after construction a DatasetConsumer's topic_name attribute is the
\* resolved physical topic [prefix.][pipeline.]dataset, and so equals the
\* topic_name of a DatasetProducer built from the same inputs.
C2_ConsumerTopicName ==
    /\ consumer.class = "DatasetConsumer"
           => consumer.topic_name = ResolvedTopic(ctor_args.consumer)
    /\ (BothConstructed /\ SameArgs(ctor_args.consumer, ctor_args.producer))
           => consumer.topic_name = producer.topic_name

RealConsumer == consumer.class = "DatasetConsumer"

\* The call that just ended was handed the record at ret.offset, which the
\* producer / another client wrote.
GotRecord == RealConsumer /\ ret.offset.ty = "int"
GotProduced == GotRecord /\ sent[ret.offset.v + 1].by = "producer"
GotForeign == GotRecord /\ sent[ret.offset.v + 1].by = "other"

\* A consume(how="next") or next() call just ended.
ReadNext == ret.op \in {"consume", "next"} /\ ret.how = "next"

\* C3: a "next"-mode read that is handed a record the producer published
\* with payload p returns an envelope whose message is p and whose dataset,
\* source_node and source_pipeline are the producer's dataset name, node
\* name and pipeline name.
C3_RoundTrip ==
    (GotProduced /\ ReadNext)
        => /\ ret.out.k = "msg"
           /\ ret.out.env.message = sent[ret.offset.v + 1].message
           /\ ret.out.env.dataset = producer.dataset
           /\ ret.out.env.source_node = producer.source_node
           /\ ret.out.env.source_pipeline = producer.source_pipeline

\* C3's case: the str payload that needs escaping came back.
C3_Witness ==
    /\ GotProduced
    /\ ReadNext
    /\ ret.out.k = "msg"
    /\ ret.out.env.message = JStr(<<EACUTE, QUOTE, BACKSLASH>>)

\* The envelopes of the well-formed records among records, in order.
RECURSIVE WellFormed(_)
WellFormed(records) ==
    IF records = <<>> THEN <<>>
    ELSE (IF validate_message(Head(records)).k = "msg"
          THEN <<validate_message(Head(records)).env>>
          ELSE <<>>) \o WellFormed(Tail(records))

\* C4: while the consumer has been read through next() only, the envelopes
\* next() has returned are exactly the well-formed records the consumer has
\* been handed so far, the first position records of the topic, in publish
\* order: none omitted, none repeated, none reordered.
C4_NextNeverSkips ==
    (RealConsumer /\ onlyNext)
        => /\ position >= 0
           /\ delivered = WellFormed(SubSeq(log, 1, position))

\* C4's case: next() has returned two different envelopes.
C4_Witness ==
    /\ RealConsumer
    /\ onlyNext
    /\ Len(delivered) = 2
    /\ delivered[1].message # delivered[2].message

LastReturned == RealConsumer /\ ret.op = "last" /\ ret.out.k = "msg"

RaisedValueError == ret.out.k = "raise" /\ ret.out.exc = "ValueError"

\* No effect: no broker operation was issued and the cached flag, the
\* fake's values and its empty flag are as before the call.
NoEffect == ret.ops = {} /\ ret.offset.ty = "NoneType" /\ ret.after = ret.before

\* C6: consume(how=h) with h neither "next" nor "last" raises ValueError
\* on DatasetConsumer and on FakeDatasetConsumer, in every state, before
\* any effect.
C6_BadHowRaises ==
    (ret.op = "consume" /\ ret.how \notin {"next", "last"})
        => RaisedValueError /\ NoEffect

\* C6's case: a consumer that has read before is called with a bad how.
C6_Witness ==
    /\ RealConsumer
    /\ ret.op = "consume"
    /\ ret.how = "bogus"
    /\ consumer.cached
    /\ position > 0

\* C7: last(timeout) with timeout <= 0 raises ValueError before any broker
\* interaction and leaves the cached flag as it was; no last() call with
\* such a timeout is ever under way.
C7_LastRejectsTimeout ==
    RealConsumer
        => /\ (ret.op = "last" /\ ret.timeout.v <= 0)
                  => RaisedValueError /\ NoEffect
           /\ call.op = "last" => call.timeout.v > 0

\* C7's case: last(0) on a consumer that has read before.
C7_Witness ==
    /\ RealConsumer
    /\ ret.op = "last"
    /\ ret.timeout.v = 0
    /\ consumer.cached

NonPositive(timeout) == timeout.ty = "int" /\ timeout.v <= 0

\* C8 as stated: a non-positive timeout for "last"-mode reading is rejected
\* at the call that received it, consume(how="last") included.
C8_NonPositiveRejected ==
    (RealConsumer /\ ret.how = "last" /\ NonPositive(ret.timeout))
        => RaisedValueError

\* C8 as amended: last(timeout) rejects a non-positive timeout;
\* consume(how="last", timeout) does not: it never raises ValueError, and
\* it has gone on to the offset update when it ends.
C8_OnlyLastRejects ==
    RealConsumer
        => /\ (ret.op = "last" /\ NonPositive(ret.timeout))
                  => RaisedValueError
           /\ (ret.op = "consume" /\ ret.how = "last")
                  => /\ ~RaisedValueError
                     /\ "assignment" \in ret.ops

\* C8's case: consume(how="last", timeout=0) returned an envelope.
C8_Witness ==
    /\ RealConsumer
    /\ ret.op = "consume"
    /\ ret.how = "last"
    /\ ret.timeout.ty = "int"
    /\ ret.timeout.v = 0
    /\ ret.out.k = "msg"

\* C9: consume returns None and never raises when the record it polled is
\* malformed: no JSON, JSON that is no object, or an object that is no
\* envelope.
C9_MalformedIsAbsent ==
    (GotForeign /\ ret.op = "consume") => ret.out.k = "none"

\* C10: next() and last(timeout > 0) never return None, and never end with
\* the transient KafkaError _MAX_POLL_EXCEEDED, which they swallow.
C10_TransientSwallowed ==
    (RealConsumer /\ ret.op \in {"next", "last"})
        => /\ ret.out.k # "none"
           /\ ~(/\ ret.out.k = "raise"
                /\ ret.out.exc = "KafkaError"
                /\ ret.out.code = MAX_POLL_EXCEEDED_CODE)

FakeConsumer == fake.class = "FakeDatasetConsumer"

\* The call that just ended was a "next"-mode / "last"-mode read of the
\* fake consumer.
FakeReadNext ==
    FakeConsumer /\ ret.op \in {"consume", "next"} /\ ret.how = "next"
FakeReadLast ==
    FakeConsumer /\ ret.op \in {"consume", "last"} /\ ret.how = "last"

\* C13: for a FakeDatasetConsumer seeded with n >= 1 payloads, with "last"
\* reads interleaved at will, the k-th "next"-mode read returns an envelope
\* whose message is the k-th seeded payload and leaves the payloads after
\* the k-th; empty is false after fewer than n such reads and true after
\* the n-th; a "next"-mode read of the emptied list returns None and
\* changes nothing.
C13_FakeNextInOrder ==
    FakeConsumer =>
        LET n == Len(hist.seeded)
            k == Len(hist.reads)
        IN  /\ k <= n
            /\ \A i \in 1..k : hist.reads[i].message = hist.seeded[i]
            /\ fake.values = SubSeq(hist.seeded, k + 1, n)
            /\ n >= 1 => (fake.empty <=> k = n)
            /\ (FakeReadNext /\ ret.before.values = <<>>)
                   => ret.out.k = "none" /\ ret.after = ret.before

\* C13's case: two different seeded payloads have both been read and a
\* further "next"-mode read has come back.
C13_Witness ==
    /\ FakeReadNext
    /\ Len(hist.seeded) = 2
    /\ hist.seeded[1] # hist.seeded[2]
    /\ Len(hist.reads) = 2
    /\ ret.before.values = <<>>

C15_FakeProducerLog ==
    fake_producer.class = "FakeDatasetProducer"
        => /\ Len(fake_producer.values) = Len(hist.produced)
           /\ \A i \in 1..Len(hist.produced) :
                  /\ fake_producer.values[i].message = hist.produced[i]
                  /\ fake_producer.values[i].dataset
                         = fake_producer.dataset_name
                  /\ fake_producer.values[i].source_node
                         = fake_producer.node_name
                  /\ fake_producer.values[i].source_pipeline
                         = fake_producer.source_pipeline

\* C15's case: two different messages have been produced.
C15_Witness ==
    /\ fake_producer.class = "FakeDatasetProducer"
    /\ Len(hist.produced) = 2
    /\ hist.produced[1] # hist.produced[2]

\* C20: in every state of a FakeDatasetConsumer, whatever it was seeded
\* with, empty is true if no values remain and false otherwise.
C20_FakeEmptyFlag ==
    FakeConsumer => (fake.empty <=> fake.values = <<>>)

\* An offset update of the call raised this KafkaError and no later one of
\* the call succeeded.
UpdateFailed(c) == c.update_error.ty = "int"

\* C11 as stated: a KafkaError raised while the offset is updated to latest
\* propagates to the caller of consume(how="last") and of last(): the call
\* ends raising it, and last() never goes on after it.
C11_UpdateErrorPropagates ==
    RealConsumer
        => /\ UpdateFailed(ret)
                  => /\ ret.out.k = "raise"
                     /\ ret.out.exc = "KafkaError"
                     /\ ret.out.code = ret.update_error.v
           /\ ~UpdateFailed(call)

\* C11 as amended: consume(how="last") turns a KafkaError raised while the
\* offset is updated to latest into None, without the timed poll and with
\* the cached flag as it was; last() never ends on such an error but calls
\* consume again.
C11_UpdateErrorIsAbsent ==
    RealConsumer
        => /\ (ret.op = "consume" /\ UpdateFailed(ret))
                  => /\ ret.out.k = "none"
                     /\ "poll" \notin ret.ops
                     /\ ret.after = ret.before
           /\ ret.op = "last" => ~UpdateFailed(ret)
           /\ (call.op = "last" /\ UpdateFailed(call)) => call.pc = "consume"

\* C11's case: last() is about to call consume again after the offset
\* update raised a KafkaError that is not the transient one.
C11_Witness ==
    /\ RealConsumer
    /\ call.op = "last"
    /\ call.pc = "consume"
    /\ UpdateFailed(call)
    /\ call.update_error.v = ALL_BROKERS_DOWN_CODE

ConsumeAllReturned ==
    RealConsumer /\ ret.op = "consume_all" /\ ret.out.k = "list"

Sought == RealConsumer /\ call.pc = "poll"

Occurrences(trace, op) == Cardinality({i \in 1..Len(trace) : trace[i] = op})

Produced == ret.op = "produce"

\* C17 as stated: produce enqueues the record, then calls poll(0), then
\* flush; one publish and one flush per call; a failed delivery does not
\* make it raise.
C17_PublishPollFlush ==
    Produced
        => /\ ret.trace = <<"produce", "poll(0)", "flush">>
           /\ ret.out.k = "none"

\* C17 as amended: produce calls poll(0), then enqueues the record, then
\* calls flush; one publish and one flush per call; a failed delivery does
\* not make it raise.
C17_PollPublishFlush ==
    Produced
        => /\ ret.trace = <<"poll(0)", "produce", "flush">>
           /\ Occurrences(ret.trace, "produce") = 1
           /\ Occurrences(ret.trace, "flush") = 1
           /\ ret.out.k = "none"
           /\ ret.acked => /\ Len(log) >= 1
                           /\ sent[Len(log)].by = "producer"

\* C17's case: a produce call whose delivery failed has returned.
C17_Witness ==
    /\ Produced
    /\ ~ret.acked
    /\ ret.out.k = "none"

\* C18 as stated: cached is false in every state in which no offset update
\* to latest has run on the consumer; in particular while the consumer has
\* only been read through next().
C18_CachedFalseBeforeUpdate ==
    (RealConsumer /\ onlyNext) => ~consumer.cached

RealCall(c) == c.op \in {"consume", "next", "last", "consume_all"}

\* C18 as amended: cached is set by the first consume, in either mode,
\* whose poll returns without raising: a call that returns an envelope
\* leaves it true, a call that did not poll leaves it as it was, and once
\* true it is never false again.
C18_CachedSetByPoll ==
    RealConsumer
        => /\ RealCall(call) => (call.before.cached => consumer.cached)
           /\ RealCall(ret)
                  => /\ ret.before.cached => ret.after.cached
                     /\ ret.after.cached = consumer.cached
                     /\ ret.out.k \in {"msg", "list"} => ret.after.cached
                     /\ (ReadNext /\ ret.out.k = "none") => ret.after.cached
                     /\ "poll" \notin ret.ops
                            => ret.after.cached = ret.before.cached

\* C18's case: cached is true on a consumer that has only been read through
\* next().
C18_Witness ==
    /\ RealConsumer
    /\ onlyNext
    /\ ret.op = "next"
    /\ ~ret.before.cached
    /\ consumer.cached

\* The configuration a client is due from its own constructor arguments
\* and the defaults alone.
OwnConfig(client) ==
    IF client.class = "Consumer"
    THEN [bootstrap_servers |->
              IF Truthy(client.bootstrap_servers)
              THEN client.bootstrap_servers.v ELSE LOCALHOST,
          group_id |-> client.name,
          auto_offset_reset |->
              IF client.offset_reset.ty = "NoneType"
              THEN EARLIEST ELSE client.offset_reset.v]
    ELSE DEFAULT_KAFKA_CONFIG.PRODUCER_CONFIG

\* C19: consumers and producers share no in-process state: every Kafka
\* client is created with the defaults and the overrides of its own
\* constructor call, and with nothing written by the construction of an
\* earlier object.
C19_NoSharedConfig ==
    \A i \in 1..Len(clients) : clients[i].config = OwnConfig(clients[i])

\* A "last"-mode read is in progress: consume(how="last") or last().
LastModeRead == RealConsumer /\ call.pc # "idle" /\ call.how = "last"

\* The read in progress is at the offset update: lines 175-179.
InUpdate == LastModeRead /\ call.pc = "consume"

\* A "last"-mode read that reached the offset update has just ended.
LastModeEnded ==
    RealConsumer /\ ret.how = "last" /\ "assignment" \in ret.ops

\* The seek and the timed poll of a "last"-mode read are issued only once
\* partitions are assigned, and while none are the read has issued nothing
\* but assignment() and poll(0).
SeeksOnlyAssigned ==
    /\ Sought => assigned
    /\ (LastModeRead /\ ~assigned)
           => /\ call.pc = "consume"
              /\ call.ops \subseteq {"assignment", "poll(0)"}
    /\ (LastModeEnded /\ "poll" \in ret.ops)
           => {"get_watermark_offsets", "assign"} \subseteq ret.ops

\* C21 as stated: a "last"-mode read never seeks with an empty partition
\* set: while no partitions are assigned the offset update only issues
\* zero-timeout polls and re-reads the assignment, and the call does not
\* return; once partitions are assigned the wait ends and the seek and then
\* the timed poll take place.
C21_OnlyAssignmentEndsWait ==
    /\ []SeeksOnlyAssigned
    /\ [](LastModeEnded => assigned)
    /\ (InUpdate /\ assigned) ~> Sought
    /\ Sought ~> (~Sought /\ "poll" \in (call.ops \cup ret.ops))

\* A "last"-mode read ended with no partitions assigned only as
\* consume(how="last") answering None to a KafkaError of the offset update,
\* having issued nothing but assignment() and poll(0).
EndedUnassignedOnError ==
    (LastModeEnded /\ ~assigned)
        => /\ ret.op = "consume"
           /\ UpdateFailed(ret)
           /\ ret.out.k = "none"
           /\ ret.ops \subseteq {"assignment", "poll(0)"}

\* C21 as amended: a "last"-mode read never seeks with an empty partition
\* set: while no partitions are assigned the offset update only issues
\* zero-timeout polls and re-reads the assignment.  The wait is left in two
\* ways: partitions are assigned, and then the seek and the timed poll take
\* place unless a broker operation of the update raises a KafkaError; or
\* poll(0) or assignment() raises a KafkaError, and then
\* consume(how="last") returns None with no partitions assigned, while
\* last() calls consume again and so never returns before partitions are
\* assigned.
C21_WaitsForAssignment ==
    /\ []SeeksOnlyAssigned
    /\ []EndedUnassignedOnError
    /\ (InUpdate /\ assigned)
           ~> (Sought \/ UpdateFailed(call) \/ UpdateFailed(ret))
    /\ Sought ~> (~Sought /\ "poll" \in (call.ops \cup ret.ops))

\* C21's case: consume(how="last") went through a round of the wait with no
\* partitions assigned, was then assigned partitions, sought, made its
\* timed poll and returned, with no error of the offset update.
C21_Witness ==
    /\ LastModeEnded
    /\ ret.op = "consume"
    /\ assigned
    /\ {"poll(0)", "get_watermark_offsets", "assign", "poll"}
           \subseteq ret.ops
    /\ ~UpdateFailed(ret)

====
